---------------------------- MODULE Spec2Model ----------------------------
(***************************************************************************)
(* A model of the virtual joystick of NXEngine-iOS (src/vjoy.cpp) and of   *)
(* the platform tap bridge (src/platform/iOS/touch_control.cpp).           *)
(*                                                                         *)
(* Lengths are integers in units of 1/10000 of the normalized screen: the  *)
(* float 0.82f is 8200.  Every product formed by the hit tests stays below *)
(* 2^31.                                                                   *)
(***************************************************************************)
EXTENDS Integers, Sequences, FiniteSets, TLC

VARIABLES
    vjoy_enabled,     \* bool vjoy_enabled
    sGO,              \* touch_control.cpp: the registered observer (TRUE: &gestureObserver)
    vjoy_mode,        \* VjoyMode::mode
    recognizer,       \* the platform gesture recognizer, as last toggled
    xres, yres,       \* cached device resolution, -1 while unknown
    lastFingerPos,    \* std::map<SDL_FingerID, Point>
    ignoredFingers,   \* std::set<SDL_FingerID>
    inputs,           \* bool inputs[INPUT_COUNT]
    pressed,          \* bool VKeys::Pad::pressed[seg_count]
    gamemode,         \* what getGamemode() returns
    ppads,            \* ModeAware::ppads: FALSE is NULL, TRUE is pads
    disable_draw,     \* pads[gm]->disable_draw
    textbox_mode,     \* normalModePad.textbox_mode
    states,           \* specScreenChanged's static std::stack<state_t>, top last
    taps,             \* GestureObserver::taps
    settings,         \* settings->tap[place]
    fingerDown,       \* history: fingers that sent a down/move sample and no FINGERUP since
    heldOver,         \* history: fingers that were down at a mode or screen change, not lifted since
    lastCall,         \* history: the last call, as far as the specification at hand notes it
    snap              \* history: what each enter not yet left found, the latest last

vars == <<vjoy_enabled, sGO, vjoy_mode, recognizer, xres, yres, lastFingerPos,
          ignoredFingers, inputs, pressed, gamemode, ppads, disable_draw,
          textbox_mode, states, taps, settings, fingerDown, heldOver, lastCall, snap>>

----------------------------------------------------------------------------
(* Bounds of the model *)

MaxFingers == 2
MaxDepth == 1
MaxTaps == 1
MaxNesting == 2

(* Program constants *)

INPUT_COUNT == 26
seg_count == 8
seg_size == 1300

CONFIG_USE_TAPS == TRUE

seg_center == <<8200, 8200>>

LEFTKEY == 0
RIGHTKEY == 1
UPKEY == 2
DOWNKEY == 3
JUMPKEY == 4
FIREKEY == 5

InputIds == 0 .. (INPUT_COUNT - 1)
SegIds == 0 .. (seg_count - 1)
FingerIds == 1 .. MaxFingers

ETOUCH == "ETOUCH"
EGESTURE == "EGESTURE"
EBOTH == "EBOTH"
Modes == {ETOUCH, EGESTURE, EBOTH}

TapSettings == {"ETAP", "EPAD", "EBOTH"}
Places == {"EInventory", "EMapSystem", "EMovies", "ETitle", "EPause", "EOptions",
           "EIngameDialog", "ESaveLoad"}

GM_NONE == "GM_NONE"
GM_NORMAL == "GM_NORMAL"
GM_INVENTORY == "GM_INVENTORY"
GM_MAP_SYSTEM == "GM_MAP_SYSTEM"
GM_ISLAND == "GM_ISLAND"
GM_CREDITS == "GM_CREDITS"
GM_INTRO == "GM_INTRO"
GM_TITLE == "GM_TITLE"
GP_PAUSED == "GP_PAUSED"
GP_OPTIONS == "GP_OPTIONS"
GameModes == {GM_NONE, GM_NORMAL, GM_INVENTORY, GM_MAP_SYSTEM, GM_ISLAND, GM_CREDITS,
              GM_INTRO, GM_TITLE, GP_PAUSED, GP_OPTIONS}

SpecScreens == {"ETextBox", "ESaveLoad", "EYesNo", "EStageSelect1", "EStageSelect2"}

SDL_FINGERDOWN == "SDL_FINGERDOWN"
SDL_FINGERMOTION == "SDL_FINGERMOTION"
SDL_FINGERUP == "SDL_FINGERUP"

----------------------------------------------------------------------------
(* Helpers: Point, Rect, Tri *)

PointSub(p, r) == <<p[1] - r[1], p[2] - r[2]>>

\* Rect::point_in: inclusive of the four edges
Rect_point_in(r, p) ==
    ~(p[1] < r.x \/ r.x + r.w < p[1] \/ p[2] < r.y \/ r.y + r.h < p[2])

Rect_fromRectI(rect, SCREEN_WIDTH, SCREEN_HEIGHT) ==
    [x |-> (rect.x * 10000) \div SCREEN_WIDTH, y |-> (rect.y * 10000) \div SCREEN_HEIGHT,
     w |-> (rect.w * 10000) \div SCREEN_WIDTH, h |-> (rect.h * 10000) \div SCREEN_HEIGHT]

\* cos(k * pi / 8) and sin(k * pi / 8), times 10000, for the odd k the wheel uses
CosP8(k) ==
    CASE k \in {1, -1} -> 9239
      [] k \in {3, -3} -> 3827
      [] k \in {5, -5} -> -3827
      [] k \in {7, -7} -> -9239

SinP8(k) ==
    CASE k = 1 -> 3827
      [] k = 3 -> 9239
      [] k = 5 -> 9239
      [] k = 7 -> 3827
      [] k = -1 -> -3827
      [] k = -3 -> -9239
      [] k = -5 -> -9239
      [] k = -7 -> -3827

\* size * c / 10000, rounded towards zero
Scaled(size, c) ==
    IF c >= 0 THEN (size * c) \div 10000 ELSE 0 - ((size * (0 - c)) \div 10000)

\* Tri::Tri(a, size, rb, rc)
Tri(a, size, rb, rc) ==
    [a |-> a,
     b |-> <<a[1] + Scaled(size, CosP8(rb)), a[2] + Scaled(size, SinP8(rb))>>,
     c |-> <<a[1] + Scaled(size, CosP8(rc)), a[2] + Scaled(size, SinP8(rc))>>]

Tri_sign(p1, p2, p3) ==
    (p1[1] - p3[1]) * (p2[2] - p3[2]) - (p2[1] - p3[1]) * (p1[2] - p3[2])

Tri_in(t, pt) ==
    LET b1 == Tri_sign(pt, t.a, t.b) < 0
        b2 == Tri_sign(pt, t.b, t.c) < 0
        b3 == Tri_sign(pt, t.c, t.a) < 0
    IN  (b1 = b2) /\ (b2 = b3)

----------------------------------------------------------------------------
(* VKeys *)

segments ==
    [i \in SegIds |->
        CASE i = 0 -> Tri(seg_center, seg_size, -1, 1)
          [] i = 1 -> Tri(seg_center, seg_size, 1, 3)
          [] i = 2 -> Tri(seg_center, seg_size, 3, 5)
          [] i = 3 -> Tri(seg_center, seg_size, 5, 7)
          [] i = 4 -> Tri(seg_center, seg_size, 7, -7)
          [] i = 5 -> Tri(seg_center, seg_size, -7, -5)
          [] i = 6 -> Tri(seg_center, seg_size, -5, -3)
          [] i = 7 -> Tri(seg_center, seg_size, -3, -1)]

NoRect == [x |-> -10000, y |-> -10000, w |-> -10000, h |-> -10000]

vkeys ==
    [i \in InputIds |->
        CASE i = 0 -> [x |-> -10000, y |-> 8000, w |-> 1000, h |-> 1000]
          [] i = 1 -> [x |-> -10000, y |-> 8000, w |-> 1000, h |-> 1000]
          [] i = 2 -> [x |-> -10000, y |-> 7000, w |-> 1000, h |-> 1000]
          [] i = 3 -> [x |-> -10000, y |-> 9000, w |-> 1000, h |-> 1000]
          [] i = 4 -> [x |-> 0, y |-> 8000, w |-> 1400, h |-> 2000]
          [] i = 5 -> [x |-> 1500, y |-> 8000, w |-> 1400, h |-> 2000]
          [] i = 6 -> [x |-> 0, y |-> 5500, w |-> 1000, h |-> 1000]
          [] i = 7 -> [x |-> 1500, y |-> 5500, w |-> 1000, h |-> 1000]
          [] i = 8 -> [x |-> 0, y |-> 0, w |-> 1000, h |-> 1000]
          [] i = 9 -> [x |-> 1500, y |-> 0, w |-> 1000, h |-> 1000]
          [] i = 10 -> [x |-> 4000, y |-> 0, w |-> 1000, h |-> 1000]
          [] i = 11 -> [x |-> 5500, y |-> 0, w |-> 1000, h |-> 1000]
          [] i = 12 -> [x |-> 7000, y |-> 0, w |-> 1000, h |-> 1000]
          [] i = 13 -> [x |-> 8500, y |-> 0, w |-> 1000, h |-> 1000]
          [] OTHER -> NoRect]

\* The flag arrays a dispatch works on: io.inputs and io.pressed
ZeroIO == [inputs |-> [i \in InputIds |-> FALSE], pressed |-> [i \in SegIds |-> FALSE]]

SegIn(i, p) == Tri_in(segments[i], p)

\* VKeys::Pad::update_buttons
Pad_update_buttons(io, p) ==
    LET vec == PointSub(p, seg_center)
        r2 == vec[1] * vec[1] + vec[2] * vec[2]
    IN  IF r2 > seg_size * seg_size
        THEN io
        ELSE [inputs |->
                 [i \in InputIds |->
                     CASE i = LEFTKEY -> SegIn(3, p) \/ SegIn(4, p) \/ SegIn(5, p)
                       [] i = RIGHTKEY -> SegIn(7, p) \/ SegIn(0, p) \/ SegIn(1, p)
                       [] i = UPKEY -> SegIn(5, p) \/ SegIn(6, p) \/ SegIn(7, p)
                       [] i = DOWNKEY -> SegIn(1, p) \/ SegIn(2, p) \/ SegIn(3, p)
                       [] OTHER -> io.inputs[i]],
              pressed |-> [i \in SegIds |-> SegIn(i, p)]]

\* VKeys::update_buttons
VKeys_update_buttons(io, p) ==
    LET hit == [inputs |->
                   [i \in InputIds |->
                       IF vkeys[i].x < 0 THEN io.inputs[i]
                       ELSE IF Rect_point_in(vkeys[i], p) THEN TRUE ELSE io.inputs[i]],
                pressed |-> io.pressed]
    IN  Pad_update_buttons(hit, p)


----------------------------------------------------------------------------
(* VjoyMode *)

\* VjoyMode::getModeFromSettings
getModeFromSettings(tapset, place) ==
    CASE tapset[place] = "ETAP" -> EGESTURE
      [] tapset[place] = "EPAD" -> ETOUCH
      [] tapset[place] = "EBOTH" -> EBOTH

EmptyMap == [k \in {} |-> <<0, 0>>]

\* The part of the program state the mode and screen handlers work on
Ctx ==
    [mode |-> vjoy_mode, recognizer |-> recognizer, fingers |-> lastFingerPos,
     ignored |-> ignoredFingers, disable_draw |-> disable_draw,
     textbox_mode |-> textbox_mode, states |-> states]

\* Mutant of setMode: the finger registry is cleared on every change of mode
setMode_clearsAlways(c, newmode) ==
    IF newmode = c.mode
    THEN c
    ELSE [c EXCEPT !.mode = newmode, !.recognizer = (newmode # ETOUCH), !.fingers = EmptyMap]

\* VjoyMode::setMode; toggleGestureRecognizer sets c.recognizer
setMode(c, newmode) ==
    IF newmode = c.mode
    THEN c
    ELSE IF CONFIG_USE_TAPS
         THEN [c EXCEPT !.mode = newmode,
                        !.recognizer = (newmode # ETOUCH),
                        !.fingers = IF newmode = EGESTURE THEN EmptyMap ELSE c.fingers]
         ELSE [c EXCEPT !.mode = newmode]

\* Mutant of ignoreAllCurrentFingers: the registry is not cleared
ignoreAllCurrentFingers_keepsRegistry(c) ==
    [c EXCEPT !.ignored = c.ignored \cup DOMAIN c.fingers]

\* VJoy::ignoreAllCurrentFingers
ignoreAllCurrentFingers(c) ==
    [c EXCEPT !.ignored = c.ignored \cup DOMAIN c.fingers, !.fingers = EmptyMap]

----------------------------------------------------------------------------
(* GestureObserver *)

\* GestureObserver::wasTap(Rect const&)
GestureObserver_wasTapRect(tapseq, rect) ==
    \E i \in 1 .. Len(tapseq) : Rect_point_in(rect, tapseq[i])

\* GestureObserver::wasTap()
GestureObserver_wasTap(tapseq) == tapseq # <<>>

----------------------------------------------------------------------------
(* VJoy::ModeAware: the mode pads *)

\* Mutant of on_enter_mode: the pads without a settings key ask for "both"
on_enter_mode_defaultBoth(gm, cur, tapset) ==
    CASE gm = GM_INVENTORY -> getModeFromSettings(tapset, "EInventory")
      [] gm = GM_MAP_SYSTEM -> getModeFromSettings(tapset, "EMapSystem")
      [] gm = GM_INTRO -> getModeFromSettings(tapset, "EMovies")
      [] gm = GM_TITLE -> getModeFromSettings(tapset, "ETitle")
      [] gm = GP_PAUSED -> getModeFromSettings(tapset, "EPause")
      [] gm = GP_OPTIONS -> getModeFromSettings(tapset, "EOptions")
      [] OTHER -> EBOTH

\* The touch mode a pad's on_enter() asks for; cur (no change) for the pads that
\* keep DefaultControl::on_enter
on_enter_mode(gm, cur, tapset) ==
    CASE gm = GM_NONE -> ETOUCH
      [] gm = GM_NORMAL -> ETOUCH
      [] gm = GM_INVENTORY -> getModeFromSettings(tapset, "EInventory")
      [] gm = GM_MAP_SYSTEM -> getModeFromSettings(tapset, "EMapSystem")
      [] gm = GM_ISLAND -> cur
      [] gm = GM_CREDITS -> cur
      [] gm = GM_INTRO -> getModeFromSettings(tapset, "EMovies")
      [] gm = GM_TITLE -> getModeFromSettings(tapset, "ETitle")
      [] gm = GP_PAUSED -> getModeFromSettings(tapset, "EPause")
      [] gm = GP_OPTIONS -> getModeFromSettings(tapset, "EOptions")

\* DefaultControl::update_buttons
DefaultControl_update_buttons(io, p) == VKeys_update_buttons(io, p)

\* NormalModePad::update_buttons
NormalModePad_update_buttons(io, p, tb) ==
    IF tb
    THEN [io EXCEPT !.inputs[FIREKEY] = TRUE]
    ELSE DefaultControl_update_buttons(io, p)

\* Mutant of PausedModePad_update_buttons: the pad keeps DefaultControl's behaviour
PausedModePad_update_buttons_own(io, p, tb) == DefaultControl_update_buttons(io, p)

\* PausedModePad::update_buttons: ppads[GM_NORMAL]->update_buttons(p)
PausedModePad_update_buttons(io, p, tb) == NormalModePad_update_buttons(io, p, tb)

\* OptionsModePad::update_buttons: ppads[GM_NORMAL]->update_buttons(p)
OptionsModePad_update_buttons(io, p, tb) == NormalModePad_update_buttons(io, p, tb)

\* pads[gm]->update_buttons(p)
pad_update_buttons(gm, io, p, tb) ==
    CASE gm = GM_NORMAL -> NormalModePad_update_buttons(io, p, tb)
      [] gm = GP_PAUSED -> PausedModePad_update_buttons(io, p, tb)
      [] gm = GP_OPTIONS -> OptionsModePad_update_buttons(io, p, tb)
      [] OTHER -> DefaultControl_update_buttons(io, p)

\* DefaultControl::draw: what is painted
DefaultControl_draw(mode) == IF mode = EGESTURE THEN "nothing" ELSE "VKeys"

\* NormalModePad keeps DefaultControl::draw
NormalModePad_draw(mode) == DefaultControl_draw(mode)

\* PausedModePad::draw and OptionsModePad::draw: ppads[GM_NORMAL]->draw()
PausedModePad_draw(mode) == NormalModePad_draw(mode)
OptionsModePad_draw(mode) == NormalModePad_draw(mode)

\* pads[gm]->draw()
pad_draw(gm, mode) ==
    CASE gm = GM_NORMAL -> NormalModePad_draw(mode)
      [] gm = GP_PAUSED -> PausedModePad_draw(mode)
      [] gm = GP_OPTIONS -> OptionsModePad_draw(mode)
      [] OTHER -> DefaultControl_draw(mode)

\* ModeAware::draw
ModeAware_draw(gm, mode, nodraw) ==
    IF ~nodraw[gm] THEN pad_draw(gm, mode) ELSE "nothing"

\* ModeAware::dispatch
dispatch(gm, io, p, tb) == pad_update_buttons(gm, io, p, tb)

\* ModeAware::wasTap(RectI), on the rectangle Rect::fromRectI gives
ModeAware_wasTapRect(mode, tapseq, rect) ==
    IF mode = ETOUCH THEN FALSE ELSE GestureObserver_wasTapRect(tapseq, rect)

\* Mutant of ModeAware_wasTap: the touch mode is not consulted
ModeAware_wasTap_anyMode(mode, tapseq) == GestureObserver_wasTap(tapseq)

\* ModeAware::wasTap()
ModeAware_wasTap(mode, tapseq) ==
    IF mode = ETOUCH THEN FALSE ELSE GestureObserver_wasTap(tapseq)

----------------------------------------------------------------------------
(* Maps *)

MapPut(m, k, v) == [j \in DOMAIN m \cup {k} |-> IF j = k THEN v ELSE m[j]]
\* Mutant of MapErase: nothing is erased
MapErase_keeps(m, k) == m

MapErase(m, k) == [j \in DOMAIN m \ {k} |-> m[j]]

Min(S) == CHOOSE x \in S : \A y \in S : x <= y

\* The loop of VJoy::ProcessInput: std::map iterates in ascending finger id
RECURSIVE DispatchAll(_, _, _, _, _)
DispatchAll(gm, io, fingers, ids, tb) ==
    IF ids = {}
    THEN io
    ELSE LET id == Min(ids)
         IN  DispatchAll(gm, dispatch(gm, io, fingers[id], tb), fingers, ids \ {id}, tb)


\* The loop of VJoy::ProcessInput run over the fingers in the order a sequence of ids
\* gives
RECURSIVE DispatchInOrder(_, _, _, _, _)
DispatchInOrder(gm, io, fingers, order, tb) ==
    IF order = <<>>
    THEN io
    ELSE DispatchInOrder(gm, dispatch(gm, io, fingers[Head(order)], tb), fingers,
                         Tail(order), tb)

\* The orders in which a set of ids can be iterated
Orders(ids) ==
    {o \in [1 .. Cardinality(ids) -> ids] : \A i, j \in DOMAIN o : i # j => o[i] # o[j]}

----------------------------------------------------------------------------
(* VJoy::ModeAware: game mode and modal screen changes *)

\* Mutant of gameModeChanged_ctx: the touch mode is set and the fingers are left alone
gameModeChanged_ctx_keepsFingers(c, newMode, tapset) ==
    [setMode(c, on_enter_mode(newMode, c.mode, tapset)) EXCEPT !.fingers = c.fingers]

\* gameModeChanged: pads[newMode]->on_enter(), then ignoreAllCurrentFingers()
gameModeChanged_ctx(c, newMode, tapset) ==
    ignoreAllCurrentFingers(setMode(c, on_enter_mode(newMode, c.mode, tapset)))

\* Mutant of Top: the oldest frame is taken
Top_oldest(stk) == stk[1]

\* state_t::push
state_push(c, gm) ==
    [mode |-> c.mode, gm |-> gm, gm_draw |-> c.disable_draw[gm],
     normal_textbox_mode |-> c.textbox_mode]

\* Mutant of state_pop: the text-box flag is not restored
state_pop_keepsTextbox(c, s) ==
    [setMode(c, s.mode) EXCEPT !.disable_draw[s.gm] = s.gm_draw]

\* state_t::pop
state_pop(c, s) ==
    [setMode(c, s.mode) EXCEPT !.disable_draw[s.gm] = s.gm_draw,
                               !.textbox_mode = s.normal_textbox_mode]

\* The settings key of a modal screen
screen_place(newScreen) ==
    CASE newScreen = "ETextBox" -> "EIngameDialog"
      [] newScreen = "ESaveLoad" -> "ESaveLoad"
      [] newScreen = "EYesNo" -> "EIngameDialog"
      [] newScreen = "EStageSelect1" -> "EIngameDialog"
      [] newScreen = "EStageSelect2" -> "EIngameDialog"

\* Mutant of screen_textbox: every modal screen clears the text-box flag
screen_textbox_alwaysFalse(newScreen, mode) == FALSE

\* The text-box flag a modal screen sets, given the touch mode it has just set
screen_textbox(newScreen, mode) ==
    CASE newScreen = "ETextBox" -> (mode # ETOUCH)
      [] newScreen = "ESaveLoad" -> FALSE
      [] newScreen = "EYesNo" -> FALSE
      [] newScreen = "EStageSelect1" -> FALSE
      [] newScreen = "EStageSelect2" -> (mode # ETOUCH)

\* The switch of specScreenChanged
screen_apply(c, newScreen, tapset) ==
    LET c1 == setMode(c, getModeFromSettings(tapset, screen_place(newScreen)))
    IN  [c1 EXCEPT !.textbox_mode = screen_textbox(newScreen, c1.mode)]

Top(stk) == stk[Len(stk)]
Pop(stk) == SubSeq(stk, 1, Len(stk) - 1)

\* Mutant of specScreenChanged_ctx: the empty stack is tested before anything is done
specScreenChanged_ctx_testsFirst(c, gm, tapset, newScreen, enter) ==
    IF ~enter /\ c.states = <<>>
    THEN c
    ELSE LET c0 == ignoreAllCurrentFingers(c)
         IN  IF enter
             THEN screen_apply([c0 EXCEPT !.states = Append(c0.states, state_push(c0, gm))],
                               newScreen, tapset)
             ELSE [state_pop(c0, Top(c0.states)) EXCEPT !.states = Pop(c0.states)]

\* specScreenChanged
specScreenChanged_ctx(c, gm, tapset, newScreen, enter) ==
    LET c0 == ignoreAllCurrentFingers(c)
    IN  IF enter
        THEN screen_apply([c0 EXCEPT !.states = Append(c0.states, state_push(c0, gm))],
                          newScreen, tapset)
        ELSE IF c0.states = <<>>
             THEN c0
             ELSE [state_pop(c0, Top(c0.states)) EXCEPT !.states = Pop(c0.states)]

\* The context record written back to the variables
SetCtx(c) ==
    /\ vjoy_mode' = c.mode
    /\ recognizer' = c.recognizer
    /\ lastFingerPos' = c.fingers
    /\ ignoredFingers' = c.ignored
    /\ disable_draw' = c.disable_draw
    /\ textbox_mode' = c.textbox_mode
    /\ states' = c.states

----------------------------------------------------------------------------
(* The settings tables and the device the model runs with *)

PlaceIdx(place) ==
    CASE place = "EInventory" -> 0
      [] place = "EMapSystem" -> 1
      [] place = "EMovies" -> 2
      [] place = "ETitle" -> 0
      [] place = "EPause" -> 1
      [] place = "EOptions" -> 2
      [] place = "EIngameDialog" -> 2
      [] place = "ESaveLoad" -> 0

TapOrder == <<"ETAP", "EPAD", "EBOTH">>

SettingsTable(k) == [place \in Places |-> TapOrder[((PlaceIdx(place) + k) % 3) + 1]]

SettingsTables == {SettingsTable(k) : k \in 0 .. 2}

\* What SDL_GetTouch returns: NULL, or a device with its resolution
NoTouch == [known |-> FALSE, xres |-> -1, yres |-> -1]
TouchDevice == [known |-> TRUE, xres |-> 20000, yres |-> 10000]

\* The answers SDL_GetTouch may give to the next sample; it is asked only while the
\* resolution is unknown
SDL_GetTouch == IF xres < 0 THEN {NoTouch, TouchDevice} ELSE {NoTouch}

\* Raw samples: device coordinates of a point on the left of the wheel and of one on
\* its right
RawPoints == {<<15000, 8200>>, <<17800, 8200>>}

TouchEvents == [type : {SDL_FINGERMOTION, SDL_FINGERUP}, fingerId : FingerIds, raw : RawPoints]

\* Tap locations the platform reports: inside the jump key, and the screen centre
TapPoints == {<<500, 8500>>, <<5000, 5000>>}

----------------------------------------------------------------------------
(* The state machine *)

Init ==
    /\ vjoy_enabled = TRUE
    /\ sGO = FALSE
    /\ vjoy_mode = ETOUCH
    /\ recognizer \in BOOLEAN
    /\ xres = -1
    /\ yres = -1
    /\ lastFingerPos = EmptyMap
    /\ ignoredFingers = {}
    /\ inputs = ZeroIO.inputs
    /\ pressed = ZeroIO.pressed
    /\ gamemode = GM_NONE
    /\ ppads = FALSE
    /\ disable_draw = [gm \in GameModes |-> FALSE]
    /\ textbox_mode = FALSE
    /\ states = <<>>
    /\ taps = <<>>
    /\ settings \in SettingsTables
    /\ fingerDown = {}
    /\ heldOver = {}
    /\ lastCall = "none"
    /\ snap = <<>>

\* VJoy::Init
VJoy_Init ==
    /\ vjoy_enabled' = TRUE
    /\ sGO' = TRUE
    /\ UNCHANGED <<vjoy_mode, recognizer, xres, yres, lastFingerPos, ignoredFingers,
                   inputs, pressed, gamemode, ppads, disable_draw, textbox_mode,
                   states, taps, settings>>

\* VJoy::Destroy
VJoy_Destroy ==
    /\ vjoy_enabled' = FALSE
    /\ UNCHANGED <<sGO, vjoy_mode, recognizer, xres, yres, lastFingerPos,
                   ignoredFingers, inputs, pressed, gamemode, ppads, disable_draw,
                   textbox_mode, states, taps, settings>>

\* The point VJoy::InjectInputEvent computes from a raw sample
Normalized(raw, rx, ry) == <<(raw[1] * 10000) \div rx, (raw[2] * 10000) \div ry>>

\* Mutant of TrackFinger: the ignore set is not consulted
TrackFinger_ignoresNothing(fingers, ignored, id, p) == MapPut(fingers, id, p)

\* The last statement of VJoy::InjectInputEvent: an ignored finger is not tracked
TrackFinger(fingers, ignored, id, p) ==
    IF id \notin ignored THEN MapPut(fingers, id, p) ELSE fingers

\* Mutant of InjectInputEvent: the gesture-only test is missing
InjectInputEvent_tracksInGesture(evt, touch) ==
    /\ UNCHANGED <<vjoy_enabled, sGO, vjoy_mode, recognizer, inputs, pressed, gamemode,
                   ppads, disable_draw, textbox_mode, states, taps, settings>>
    /\ IF ~vjoy_enabled
       THEN UNCHANGED <<xres, yres, lastFingerPos, ignoredFingers>>
       ELSE IF evt.type = SDL_FINGERUP
       THEN /\ lastFingerPos' = MapErase(lastFingerPos, evt.fingerId)
            /\ ignoredFingers' = ignoredFingers \ {evt.fingerId}
            /\ UNCHANGED <<xres, yres>>
       ELSE IF xres < 0 /\ ~touch.known
       THEN UNCHANGED <<xres, yres, lastFingerPos, ignoredFingers>>
       ELSE /\ xres' = IF xres < 0 THEN touch.xres ELSE xres
            /\ yres' = IF xres < 0 THEN touch.yres ELSE yres
            /\ lastFingerPos' = TrackFinger(lastFingerPos, ignoredFingers, evt.fingerId,
                                             Normalized(evt.raw, xres', yres'))
            /\ UNCHANGED ignoredFingers

\* VJoy::InjectInputEvent; touch is what SDL_GetTouch(evt.tfinger.touchId) returns
InjectInputEvent(evt, touch) ==
    /\ UNCHANGED <<vjoy_enabled, sGO, vjoy_mode, recognizer, inputs, pressed, gamemode,
                   ppads, disable_draw, textbox_mode, states, taps, settings>>
    /\ IF ~vjoy_enabled
       THEN UNCHANGED <<xres, yres, lastFingerPos, ignoredFingers>>
       ELSE IF evt.type = SDL_FINGERUP
       THEN /\ lastFingerPos' = MapErase(lastFingerPos, evt.fingerId)
            /\ ignoredFingers' = ignoredFingers \ {evt.fingerId}
            /\ UNCHANGED <<xres, yres>>
       ELSE IF vjoy_mode = EGESTURE
       THEN UNCHANGED <<xres, yres, lastFingerPos, ignoredFingers>>
       ELSE IF xres < 0 /\ ~touch.known
       THEN UNCHANGED <<xres, yres, lastFingerPos, ignoredFingers>>
       ELSE /\ xres' = IF xres < 0 THEN touch.xres ELSE xres
            /\ yres' = IF xres < 0 THEN touch.yres ELSE yres
            /\ lastFingerPos' = TrackFinger(lastFingerPos, ignoredFingers, evt.fingerId,
                                             Normalized(evt.raw, xres', yres'))
            /\ UNCHANGED ignoredFingers

\* VJoy::PreProcessInput
PreProcessInput ==
    /\ taps' = IF vjoy_enabled THEN <<>> ELSE taps
    /\ UNCHANGED <<vjoy_enabled, sGO, vjoy_mode, recognizer, xres, yres, lastFingerPos,
                   ignoredFingers, inputs, pressed, gamemode, ppads, disable_draw,
                   textbox_mode, states, settings>>

\* VJoy::ProcessInput.  The paused and options pads go through ppads, which is set
\* by the first gameModeChanged: no game mode is entered without it
\* Mutant of ProcessInput_io: the two memsets are missing
ProcessInput_io_noClear(enabled, io, gm, fingers, tb) ==
    IF ~enabled
    THEN io
    ELSE DispatchAll(gm, io, fingers, DOMAIN fingers, tb)

\* What VJoy::ProcessInput leaves in the flag arrays
ProcessInput_io(enabled, io, gm, fingers, tb) ==
    IF ~enabled
    THEN io
    ELSE DispatchAll(gm, ZeroIO, fingers, DOMAIN fingers, tb)

ProcessInput ==
    /\ gamemode \in {GP_PAUSED, GP_OPTIONS} => ppads
    /\ LET io == ProcessInput_io(vjoy_enabled, [inputs |-> inputs, pressed |-> pressed],
                                 gamemode, lastFingerPos, textbox_mode)
       IN  /\ inputs' = io.inputs
           /\ pressed' = io.pressed
    /\ UNCHANGED <<vjoy_enabled, sGO, vjoy_mode, recognizer, xres, yres, lastFingerPos,
                   ignoredFingers, gamemode, ppads, disable_draw, textbox_mode, states,
                   taps, settings>>

\* touch_control.cpp tap(x, y): forwarded to GestureObserver::tap when registered
tap(p) ==
    /\ Len(taps) < MaxTaps
    /\ taps' = IF sGO THEN Append(taps, p) ELSE taps
    /\ UNCHANGED <<vjoy_enabled, sGO, vjoy_mode, recognizer, xres, yres, lastFingerPos,
                   ignoredFingers, inputs, pressed, gamemode, ppads, disable_draw,
                   textbox_mode, states, settings>>

\* VJoy::ModeAware::gameModeChanged; the game has made newMode the current mode
gameModeChanged(newMode) ==
    /\ ppads' = TRUE
    /\ gamemode' = newMode
    /\ SetCtx(gameModeChanged_ctx(Ctx, newMode, settings))
    /\ UNCHANGED <<vjoy_enabled, sGO, xres, yres, inputs, pressed, taps, settings>>

\* VJoy::ModeAware::specScreenChanged
specScreenChanged(newScreen, enter) ==
    /\ SetCtx(specScreenChanged_ctx(Ctx, gamemode, settings, newScreen, enter))
    /\ UNCHANGED <<vjoy_enabled, sGO, xres, yres, inputs, pressed, gamemode, ppads, taps,
                   settings>>

\* VJoy::ignoreAllCurrentFingers, called on its own
VJoy_ignoreAllCurrentFingers ==
    /\ SetCtx(ignoreAllCurrentFingers(Ctx))
    /\ UNCHANGED <<vjoy_enabled, sGO, xres, yres, inputs, pressed, gamemode, ppads, taps,
                   settings>>

----------------------------------------------------------------------------
(* History variables.  They record what the fingers physically do and which *)
(* call came last; they are written beside the program's actions by the     *)
(* specifications that read them, and the program never reads them.         *)

hist == <<fingerDown, heldOver, lastCall, snap>>

Note(call) == lastCall' = call

\* A sample of finger evt.fingerId reaches the program
HistEvent(evt) ==
    /\ fingerDown' = IF evt.type = SDL_FINGERUP THEN fingerDown \ {evt.fingerId}
                     ELSE fingerDown \cup {evt.fingerId}
    /\ heldOver' = IF evt.type = SDL_FINGERUP THEN heldOver \ {evt.fingerId} ELSE heldOver

\* A game-mode change or a modal screen change happens
HistTransition ==
    /\ heldOver' = heldOver \cup fingerDown
    /\ UNCHANGED fingerDown

NoFingerHist == UNCHANGED <<fingerDown, heldOver, snap>>

----------------------------------------------------------------------------
(* Specifications.  Each runs the operations that write the variables its   *)
(* claims read, on inputs small enough to enumerate.                        *)

\* SpecCtx: the touch-mode controller and the context stack, for every game mode,
\* every modal screen and every settings table
\* What SpecCtx notes of a screen change: an enter that changes the touch mode and the
\* text-box flag, and a leave that follows such an enter at once
CtxNote(enter) ==
    Note(IF enter
         THEN IF vjoy_mode' # vjoy_mode /\ textbox_mode' # textbox_mode
              THEN "enter_changing" ELSE "enter"
         ELSE IF lastCall = "enter_changing" THEN "leave_after_enter_changing" ELSE "leave")

NextCtx ==
    \/ \E newMode \in GameModes :
          gameModeChanged(newMode) /\ Note("gameModeChanged") /\ NoFingerHist
    \/ \E newScreen \in SpecScreens, enter \in BOOLEAN :
          /\ enter => Len(states) < MaxDepth
          /\ specScreenChanged(newScreen, enter)
          /\ CtxNote(enter)
          /\ NoFingerHist

SpecCtx == Init /\ [][NextCtx]_vars

\* A mode or screen change that takes the touch mode to gesture-only with fingers tracked
ToGestureNote ==
    Note(IF vjoy_mode # EGESTURE /\ vjoy_mode' = EGESTURE /\ lastFingerPos # EmptyMap
         THEN "to_gesture_with_fingers" ELSE "other")

\* SpecFingers: the finger registry and the ignore set across mode and screen changes
\* It runs, as SpecHeld and SpecTouch do, with the settings table that makes the
\* inventory and the save/load screen gesture-only, the pause menu touch-only and
\* dialogs and the options menu both
InitTable0 == Init /\ settings = SettingsTable(0)

FingerGameModes == {GM_NORMAL, GM_INVENTORY, GM_ISLAND}
FingerScreens == {"ETextBox", "ESaveLoad"}
FingerEvents ==
    [type : {SDL_FINGERDOWN, SDL_FINGERMOTION, SDL_FINGERUP}, fingerId : FingerIds,
     raw : {<<15000, 8200>>}]

\* A sample the program would track, were its finger not in the ignore set
SampleOfIgnored(evt, touch) ==
    /\ vjoy_enabled
    /\ evt.type # SDL_FINGERUP
    /\ vjoy_mode # EGESTURE
    /\ xres > 0 \/ touch.known
    /\ evt.fingerId \in ignoredFingers

\* A FINGERUP sample of an ignored finger that the program processes
LiftOfIgnored(evt) ==
    /\ vjoy_enabled
    /\ evt.type = SDL_FINGERUP
    /\ evt.fingerId \in ignoredFingers

NextFingers ==
    \/ VJoy_Destroy /\ Note("other") /\ NoFingerHist
    \/ \E evt \in FingerEvents, touch \in SDL_GetTouch :
          /\ InjectInputEvent(evt, touch)
          /\ Note(IF SampleOfIgnored(evt, touch) THEN "sample_of_ignored_finger"
                  ELSE IF LiftOfIgnored(evt) THEN "ignored_finger_lifted"
                  ELSE "sample")
          /\ NoFingerHist
    \/ \E newMode \in FingerGameModes :
          gameModeChanged(newMode) /\ ToGestureNote /\ NoFingerHist
    \/ \E newScreen \in FingerScreens, enter \in BOOLEAN :
          /\ enter => Len(states) < MaxDepth
          /\ specScreenChanged(newScreen, enter)
          /\ Note(IF ~enter /\ states = <<>>
                  THEN IF lastFingerPos # EmptyMap
                       THEN "leave_on_empty_stack_with_fingers"
                       ELSE "leave_on_empty_stack"
                  ELSE "other")
          /\ NoFingerHist
    \/ VJoy_ignoreAllCurrentFingers /\ Note("other") /\ NoFingerHist

SpecFingers == InitTable0 /\ [][NextFingers]_vars

\* SpecHeld: the same calls on a device whose resolution SDL_GetTouch always knows,
\* with the history of which fingers are down and which were down at a change
NextHeld ==
    \/ VJoy_Destroy /\ UNCHANGED hist
    \/ \E evt \in FingerEvents :
          InjectInputEvent(evt, TouchDevice) /\ HistEvent(evt) /\ UNCHANGED <<lastCall, snap>>
    \/ \E newMode \in FingerGameModes :
          gameModeChanged(newMode) /\ HistTransition /\ UNCHANGED <<lastCall, snap>>
    \/ \E newScreen \in FingerScreens, enter \in BOOLEAN :
          /\ enter => Len(states) < MaxDepth
          /\ specScreenChanged(newScreen, enter)
          /\ HistTransition
          /\ UNCHANGED <<lastCall, snap>>
    \/ VJoy_ignoreAllCurrentFingers /\ UNCHANGED hist

SpecHeld == InitTable0 /\ [][NextHeld]_vars


\* SpecTouch: tracked fingers dispatched onto the flag array
TouchGameModes == {GM_NORMAL, GM_INVENTORY, GP_PAUSED, GP_OPTIONS}

NextTouch ==
    \/ VJoy_Destroy /\ Note("other") /\ NoFingerHist
    \/ \E evt \in TouchEvents, touch \in SDL_GetTouch :
          InjectInputEvent(evt, touch) /\ Note("other") /\ NoFingerHist
    \/ /\ ProcessInput
       /\ Note(IF lastCall = "to_gesture_with_fingers"
               THEN "ProcessInput_after_to_gesture"
               ELSE IF lastFingerPos = EmptyMap /\ (\E i \in InputIds : inputs[i])
               THEN "ProcessInput_on_stale_flags"
               ELSE "ProcessInput")
       /\ NoFingerHist
    \/ \E newMode \in TouchGameModes :
          gameModeChanged(newMode) /\ ToGestureNote /\ NoFingerHist
    \/ \E enter \in BOOLEAN :
          /\ enter => Len(states) < MaxDepth
          /\ specScreenChanged("ETextBox", enter)
          /\ ToGestureNote
          /\ NoFingerHist

SpecTouch == InitTable0 /\ [][NextTouch]_vars

\* The last call was ProcessInput
Processed ==
    lastCall \in {"ProcessInput", "ProcessInput_after_to_gesture", "ProcessInput_on_stale_flags"}

\* SpecTaps: the tap buffer and the tap queries
NextTaps ==
    \/ VJoy_Init /\ Note("other") /\ NoFingerHist
    \/ VJoy_Destroy /\ Note("other") /\ NoFingerHist
    \/ PreProcessInput /\ Note("PreProcessInput") /\ NoFingerHist
    \/ \E p \in TapPoints : tap(p) /\ Note("other") /\ NoFingerHist
    \/ \E newMode \in GameModes : gameModeChanged(newMode) /\ Note("other") /\ NoFingerHist

\* Pixel rectangles the game asks about: the jump key, the whole screen, a corner
Screen == [w |-> 320, h |-> 240]
QueryRects ==
    {[x |-> 0, y |-> 192, w |-> 45, h |-> 48], [x |-> 0, y |-> 0, w |-> 320, h |-> 240],
     [x |-> 300, y |-> 0, w |-> 20, h |-> 20]}

\* ModeAware::wasTap(RectI rect) as the game sees it
wasTapRectI(rect) ==
    ModeAware_wasTapRect(vjoy_mode, taps, Rect_fromRectI(rect, Screen.w, Screen.h))

SpecTaps == Init /\ [][NextTaps]_vars

\* SpecWheel: one finger moved over the wheel and dispatched
\* Offsets from seg_center of the points the finger visits: a grid over the wheel
\* and its corners, the lowest point of the rim, and a vertex two segments share
WheelOffsets ==
    ({-1250, -800, 0, 800, 1250} \X {-1250, -800, 0, 800, 1250})
        \cup {<<0, 1300>>, <<1201, 497>>, <<-3200, -3200>>}

WheelPoints == {<<seg_center[1] + d[1], seg_center[2] + d[2]>> : d \in WheelOffsets}

\* The device coordinates TouchDevice reports for a point of the screen
RawOf(p) == <<(p[1] * TouchDevice.xres) \div 10000, (p[2] * TouchDevice.yres) \div 10000>>

WheelEvents ==
    [type : {SDL_FINGERMOTION, SDL_FINGERUP}, fingerId : {1},
     raw : {RawOf(p) : p \in WheelPoints}]

NextWheel ==
    \/ \E evt \in WheelEvents :
          InjectInputEvent(evt, TouchDevice) /\ Note("other") /\ NoFingerHist
    \/ ProcessInput /\ Note("ProcessInput") /\ NoFingerHist
    \/ gameModeChanged(GM_NORMAL) /\ Note("other") /\ NoFingerHist

SpecWheel == InitTable0 /\ [][NextWheel]_vars

\* SpecStack: nested modal screens with game-mode changes between them
StackGameModes == {GM_NORMAL, GM_INVENTORY, GM_ISLAND}
StackScreens == {"ETextBox", "ESaveLoad"}

\* What an enter finds: the values a matching leave is to bring back
Snapshot ==
    [mode |-> vjoy_mode, disable_draw |-> disable_draw, textbox_mode |-> textbox_mode]

NextStack ==
    \/ \E newMode \in StackGameModes :
          /\ gameModeChanged(newMode)
          /\ Note("gameModeChanged")
          /\ NoFingerHist
    \/ \E newScreen \in StackScreens :
          /\ Len(states) < MaxNesting
          /\ specScreenChanged(newScreen, TRUE)
          /\ snap' = Append(snap, Snapshot)
          /\ Note("enter")
          /\ UNCHANGED <<fingerDown, heldOver>>
    \/ \E newScreen \in StackScreens :
          /\ specScreenChanged(newScreen, FALSE)
          /\ snap' = IF snap = <<>> THEN snap ELSE SubSeq(snap, 1, Len(snap) - 1)
          /\ Note(IF snap = <<>> THEN "leave_on_empty_stack" ELSE "leave")
          /\ UNCHANGED <<fingerDown, heldOver>>

SpecStack == InitTable0 /\ [][NextStack]_vars

\* SpecGesture: samples and dispatch while the touch mode goes in and out of
\* gesture-only by a game-mode change, by entering a modal screen and by leaving one
GestureGameModes == {GM_NORMAL, GM_INVENTORY}
GestureScreens == {"ETextBox", "ESaveLoad"}

\* A move or down sample that reaches the enabled program in gesture-only mode
SampleInGesture(evt) ==
    /\ vjoy_enabled
    /\ evt.type # SDL_FINGERUP
    /\ vjoy_mode = EGESTURE

NextGesture ==
    \/ VJoy_Destroy /\ Note("other") /\ NoFingerHist
    \/ \E evt \in FingerEvents :
          /\ InjectInputEvent(evt, TouchDevice)
          /\ Note(IF SampleInGesture(evt) THEN "sample_in_gesture" ELSE "sample")
          /\ NoFingerHist
    \/ /\ ProcessInput
       /\ Note(IF vjoy_mode # EGESTURE THEN "ProcessInput"
               ELSE IF lastCall = "sample_in_gesture"
               THEN "ProcessInput_after_gesture_sample"
               ELSE "ProcessInput_in_gesture")
       /\ NoFingerHist
    \/ \E newMode \in GestureGameModes :
          gameModeChanged(newMode) /\ ToGestureNote /\ NoFingerHist
    \/ \E newScreen \in GestureScreens, enter \in BOOLEAN :
          /\ enter => Len(states) < MaxDepth
          /\ specScreenChanged(newScreen, enter)
          /\ ToGestureNote
          /\ NoFingerHist

SpecGesture == InitTable0 /\ [][NextGesture]_vars

----------------------------------------------------------------------------
(* Claims *)

Tracked == DOMAIN lastFingerPos

\* A FINGERUP sample of finger id is processed (the system is enabled)
FingerUpProcessed(id) ==
    /\ vjoy_enabled
    /\ \E evt \in FingerEvents :
          evt.type = SDL_FINGERUP /\ evt.fingerId = id /\ InjectInputEvent(evt, NoTouch)

\* C1 (SpecFingers).  ignoreAllCurrentFingers() puts every finger of the registry
\* into the ignore set (in gameModeChanged: every finger on_enter() has left in the
\* registry); a finger of the ignore set is in the registry after no step; and it
\* leaves the ignore set only in a step that processes a FINGERUP of that finger.
C1_IgnoredStayOut ==
    [][/\ \A id \in FingerIds : id \in ignoredFingers => id \notin DOMAIN lastFingerPos'
       /\ \A id \in FingerIds :
             (id \in ignoredFingers /\ id \notin ignoredFingers') => FingerUpProcessed(id)
       /\ (\/ VJoy_ignoreAllCurrentFingers
           \/ \E newScreen \in FingerScreens, enter \in BOOLEAN :
                 specScreenChanged(newScreen, enter))
             => Tracked \subseteq ignoredFingers'
       /\ \A newMode \in FingerGameModes :
             gameModeChanged(newMode)
             => DOMAIN setMode(Ctx, on_enter_mode(newMode, vjoy_mode, settings)).fingers
                   \subseteq ignoredFingers'
      ]_vars

\* A sample of an ignored finger, which the program would otherwise track, has been
\* processed; the finger is still ignored
C1_Witness ==
    /\ lastCall = "sample_of_ignored_finger"
    /\ vjoy_enabled
    /\ vjoy_mode # EGESTURE
    /\ ignoredFingers # {}

\* The flag array one finger alone produces from zeroed flags
Alone(id) == dispatch(gamemode, ZeroIO, lastFingerPos[id], textbox_mode)

\* C2 (SpecTouch).  After ProcessInput() of the enabled system every logical input
\* flag is the OR, over the tracked fingers, of the flag each finger alone produces.
C2_FlagsAreUnion ==
    (Processed /\ vjoy_enabled)
        => \A i \in InputIds : inputs[i] = (\E id \in Tracked : Alone(id).inputs[i])

\* C3 (SpecCtx).  From every reachable state and for every modal screen, entering
\* the screen and leaving at once restores the touch mode, the draw-suppressed flag
\* of the active game mode's pad and the text-box flag, and the stack depth.
C3_RoundTrip ==
    \A newScreen \in SpecScreens, leftScreen \in SpecScreens :
        LET entered == specScreenChanged_ctx(Ctx, gamemode, settings, newScreen, TRUE)
            left == specScreenChanged_ctx(entered, gamemode, settings, leftScreen, FALSE)
        IN  /\ Len(entered.states) = Len(states) + 1
            /\ left.mode = vjoy_mode
            /\ left.disable_draw[gamemode] = disable_draw[gamemode]
            /\ left.textbox_mode = textbox_mode
            /\ Len(left.states) = Len(states)

\* An enter that changed the touch mode and the text-box flag was left at once, and
\* both are back
C3_Witness ==
    /\ lastCall = "leave_after_enter_changing"
    /\ states = <<>>
    /\ vjoy_mode = ETOUCH
    /\ ~textbox_mode

\* C4 (SpecHeld).  A finger that was down at a game-mode or modal screen change
\* and has not lifted since is not in the finger registry.
C4_HeldFingerStaysOut == \A id \in heldOver : id \notin Tracked

\* Every flag of both arrays is false
AllFlagsFalse == (\A i \in InputIds : ~inputs[i]) /\ (\A i \in SegIds : ~pressed[i])

\* C5 (SpecTouch), as stated.  When the touch mode has just changed to gesture-only
\* with fingers tracked the registry is empty, and after a following ProcessInput()
\* every logical input flag is false.
C5_GestureClearsFlags ==
    /\ lastCall = "to_gesture_with_fingers" => lastFingerPos = EmptyMap
    /\ lastCall = "ProcessInput_after_to_gesture"
          => lastFingerPos = EmptyMap /\ AllFlagsFalse

\* C5 (SpecTouch), amended.  When the touch mode has just changed to gesture-only
\* with fingers tracked the registry is empty, and after a following ProcessInput()
\* made while the system is enabled every logical input flag is false.
C5_GestureClearsFlagsEnabled ==
    /\ lastCall = "to_gesture_with_fingers" => lastFingerPos = EmptyMap
    /\ (lastCall = "ProcessInput_after_to_gesture" /\ vjoy_enabled)
          => lastFingerPos = EmptyMap /\ AllFlagsFalse

\* ProcessInput() of the enabled system has followed a change to gesture-only that
\* found fingers tracked
C5_Witness ==
    /\ lastCall = "ProcessInput_after_to_gesture"
    /\ vjoy_enabled
    /\ vjoy_mode = EGESTURE
    /\ gamemode = GM_INVENTORY

\* C6 (SpecTaps).  While the touch mode is touch-only, wasTap() and wasTap(rect)
\* for every queried rectangle return false, whatever the tap buffer holds.
C6_NoTapInTouchMode ==
    vjoy_mode = ETOUCH
        => /\ ~ModeAware_wasTap(vjoy_mode, taps)
           /\ \A rect \in QueryRects : ~wasTapRectI(rect)

\* Touch-only mode with a tap in the buffer that lies inside a queried rectangle
C6_Witness ==
    /\ vjoy_mode = ETOUCH
    /\ GestureObserver_wasTap(taps)
    /\ \E rect \in QueryRects :
          GestureObserver_wasTapRect(taps, Rect_fromRectI(rect, Screen.w, Screen.h))

\* C7 (SpecTouch), as stated.  After any ProcessInput() call a flag is true only if
\* a finger tracked at that call sets it; with an empty registry all flags are false.
C7_NoStaleFlag ==
    Processed => \A i \in InputIds : inputs[i] => \E id \in Tracked : Alone(id).inputs[i]

\* C7 (SpecTouch), amended.  After a ProcessInput() call made while the system is
\* enabled a flag is true only if a finger tracked at that call sets it; with an
\* empty registry all flags are false.
C7_NoStaleFlagEnabled ==
    (Processed /\ vjoy_enabled)
        => /\ \A i \in InputIds : inputs[i] => \E id \in Tracked : Alone(id).inputs[i]
           /\ \A i \in SegIds : pressed[i] => \E id \in Tracked : Alone(id).pressed[i]

\* ProcessInput() of the enabled system found flags of an earlier tick set and no
\* finger tracked, and has cleared them
C7_Witness ==
    /\ lastCall = "ProcessInput_on_stale_flags"
    /\ vjoy_enabled
    /\ lastFingerPos = EmptyMap
    /\ AllFlagsFalse

\* Points dispatched in C8: the jump key, the left of the wheel, the screen centre
ProbePoints == {<<500, 8500>>, <<7500, 8200>>, <<5000, 5000>>}

ProxyModes == {GP_PAUSED, GP_OPTIONS}

\* C8 (SpecTouch).  After ProcessInput() in paused or options mode the flags are
\* those normal mode would leave; and from these flags, for every probe point and
\* text-box flag, dispatch in paused or options mode gives what dispatch in normal
\* mode gives: only the fire flag in text-box mode, the grid and wheel hit test
\* otherwise.  draw paints what the normal pad paints.
C8_PausedOptionsProxy ==
    LET io == [inputs |-> inputs, pressed |-> pressed]
    IN  /\ (Processed /\ vjoy_enabled /\ gamemode \in ProxyModes)
              => /\ io = DispatchAll(GM_NORMAL, ZeroIO, lastFingerPos, Tracked, textbox_mode)
                 /\ \A gm \in ProxyModes, p \in ProbePoints, tb \in BOOLEAN :
                       LET d == dispatch(gm, io, p, tb)
                       IN  /\ d = dispatch(GM_NORMAL, io, p, tb)
                           /\ d = IF tb THEN [io EXCEPT !.inputs[FIREKEY] = TRUE]
                                   ELSE VKeys_update_buttons(io, p)
        /\ \A gm \in ProxyModes, mode \in Modes :
              /\ pad_draw(gm, mode) = pad_draw(GM_NORMAL, mode)
              /\ ModeAware_draw(gm, mode, disable_draw)
                    = ModeAware_draw(GM_NORMAL, mode, disable_draw)

\* ProcessInput() has run in paused mode with the text-box flag set and a finger on
\* the wheel: fire is asserted and no direction is
C8_Witness ==
    /\ Processed
    /\ vjoy_enabled
    /\ gamemode = GP_PAUSED
    /\ textbox_mode
    /\ Tracked # {}
    /\ inputs[FIREKEY]
    /\ ~inputs[LEFTKEY] /\ ~inputs[RIGHTKEY]

\* C9 (SpecCtx), as stated.  After gameModeChanged(m) the touch mode is the settings
\* lookup of m's context for inventory, map, intro, title, pause and options, and
\* "both" for the game modes without a settings context.
C9_ModeOfContextOrBoth ==
    [][\A m \in GameModes :
          gameModeChanged(m)
          => vjoy_mode' =
                CASE m = GM_INVENTORY -> getModeFromSettings(settings, "EInventory")
                  [] m = GM_MAP_SYSTEM -> getModeFromSettings(settings, "EMapSystem")
                  [] m = GM_INTRO -> getModeFromSettings(settings, "EMovies")
                  [] m = GM_TITLE -> getModeFromSettings(settings, "ETitle")
                  [] m = GP_PAUSED -> getModeFromSettings(settings, "EPause")
                  [] m = GP_OPTIONS -> getModeFromSettings(settings, "EOptions")
                  [] OTHER -> EBOTH
      ]_vars

\* C9 (SpecCtx), amended.  After gameModeChanged(m) the touch mode is the settings
\* lookup of m's context for inventory, map, intro, title, pause and options;
\* touch-only for none and normal; and what it was before for island and credits.
C9_ModeOfContext ==
    [][\A m \in GameModes :
          gameModeChanged(m)
          => vjoy_mode' =
                CASE m = GM_INVENTORY -> getModeFromSettings(settings, "EInventory")
                  [] m = GM_MAP_SYSTEM -> getModeFromSettings(settings, "EMapSystem")
                  [] m = GM_INTRO -> getModeFromSettings(settings, "EMovies")
                  [] m = GM_TITLE -> getModeFromSettings(settings, "ETitle")
                  [] m = GP_PAUSED -> getModeFromSettings(settings, "EPause")
                  [] m = GP_OPTIONS -> getModeFromSettings(settings, "EOptions")
                  [] m \in {GM_NONE, GM_NORMAL} -> ETOUCH
                  [] m \in {GM_ISLAND, GM_CREDITS} -> vjoy_mode
      ]_vars

\* gameModeChanged(GM_ISLAND) has left the gesture-only mode it found
C9_Witness ==
    /\ lastCall = "gameModeChanged"
    /\ gamemode = GM_ISLAND
    /\ vjoy_mode = EGESTURE

\* C10 (SpecFingers), as stated.  specScreenChanged(screen, enter = false) on an
\* empty context stack changes none of: touch mode, draw-suppressed flags, text-box
\* flag, context stack, finger registry, ignore set.
C10_LeaveOnEmptyIsNoOp ==
    [][\A newScreen \in FingerScreens :
          (states = <<>> /\ specScreenChanged(newScreen, FALSE))
          => UNCHANGED <<vjoy_mode, disable_draw, textbox_mode, states, lastFingerPos,
                         ignoredFingers>>
      ]_vars

\* C10 (SpecFingers), amended.  specScreenChanged(screen, enter = false) on an
\* empty context stack leaves touch mode, draw-suppressed flags, text-box flag and
\* context stack unchanged, empties the finger registry and adds the fingers that
\* were in it to the ignore set.
C10_LeaveOnEmptyIgnoresFingers ==
    [][\A newScreen \in FingerScreens :
          (states = <<>> /\ specScreenChanged(newScreen, FALSE))
          => /\ UNCHANGED <<vjoy_mode, disable_draw, textbox_mode, states>>
             /\ lastFingerPos' = EmptyMap
             /\ ignoredFingers' = ignoredFingers \cup Tracked
      ]_vars

\* A leave on the empty stack found a finger tracked and has moved it to the ignore set
C10_Witness ==
    /\ lastCall = "leave_on_empty_stack_with_fingers"
    /\ states = <<>>
    /\ lastFingerPos = EmptyMap
    /\ ignoredFingers # {}

\* ProcessInput() has just dispatched one finger, at point p, and no other
OnlyTouchAt(p) ==
    /\ Processed
    /\ vjoy_enabled
    /\ ~textbox_mode
    /\ Tracked # {}
    /\ \A id \in Tracked : lastFingerPos[id] = p

\* C11 (SpecWheel).  From zeroed flags, a single touch at (0.82, 0.95) gives down
\* and not left, right, up; one at (0.90, 0.90) gives down and right; one at
\* (0.5, 0.5) gives no directional flag.
C11_WheelScenario ==
    /\ OnlyTouchAt(<<8200, 9500>>)
          => inputs[DOWNKEY] /\ ~inputs[LEFTKEY] /\ ~inputs[RIGHTKEY] /\ ~inputs[UPKEY]
    /\ OnlyTouchAt(<<9000, 9000>>) => inputs[DOWNKEY] /\ inputs[RIGHTKEY]
    /\ OnlyTouchAt(<<5000, 5000>>)
          => ~inputs[DOWNKEY] /\ ~inputs[LEFTKEY] /\ ~inputs[RIGHTKEY] /\ ~inputs[UPKEY]

\* The point is within the wheel radius of the anchor and is not the anchor
InWheel(p) ==
    LET vec == PointSub(p, seg_center)
        r2 == vec[1] * vec[1] + vec[2] * vec[2]
    IN  r2 > 0 /\ r2 <= seg_size * seg_size

\* C12 (SpecWheel).  A single touch within the wheel radius and off the anchor is
\* in exactly one of the eight segments and sets at least one directional flag.
C12_SegmentsPartition ==
    \A p \in WheelPoints :
        (OnlyTouchAt(p) /\ InWheel(p))
            => /\ Cardinality({i \in SegIds : pressed[i]}) = 1
               /\ inputs[LEFTKEY] \/ inputs[RIGHTKEY] \/ inputs[UPKEY] \/ inputs[DOWNKEY]

\* C13 (SpecTaps).  When PreProcessInput() has just run the tap buffer is empty: no
\* tap is carried into the frame that starts.
C13_TapsClearedEachFrame == lastCall = "PreProcessInput" => taps = <<>>

\* C14 (SpecTouch).  The flags ProcessInput() leaves are those every iteration order
\* over the tracked fingers gives: inputs and pressed do not depend on the order.
C14_OrderIndependent ==
    (Processed /\ vjoy_enabled)
        => \A order \in Orders(Tracked) :
              DispatchInOrder(gamemode, ZeroIO, lastFingerPos, order, textbox_mode)
                  = [inputs |-> inputs, pressed |-> pressed]

\* C15 (SpecFingers).  In every state setMode(m) changes nothing when m is the current
\* touch mode; otherwise it sets the mode, enables the recognizer iff m is not
\* touch-only, and empties the finger registry iff m is gesture-only.  In every step
\* that changes the touch mode the recognizer ends enabled iff the new mode is not
\* touch-only, and a step that keeps the mode keeps the recognizer.
C15_SetMode ==
    [][/\ \A m \in Modes :
             LET c == setMode(Ctx, m)
             IN  IF m = vjoy_mode
                 THEN c = Ctx
                 ELSE c = [Ctx EXCEPT !.mode = m,
                                      !.recognizer = (m # ETOUCH),
                                      !.fingers = IF m = EGESTURE THEN EmptyMap
                                                  ELSE lastFingerPos]
       /\ vjoy_mode' # vjoy_mode => recognizer' = (vjoy_mode' # ETOUCH)
       /\ vjoy_mode' = vjoy_mode => recognizer' = recognizer
      ]_vars

\* gameModeChanged has just taken the touch mode to gesture-only with fingers
\* tracked: the recognizer is on and the registry is empty
C15_Witness ==
    /\ lastCall = "to_gesture_with_fingers"
    /\ gamemode = GM_INVENTORY
    /\ vjoy_mode = EGESTURE
    /\ recognizer
    /\ lastFingerPos = EmptyMap
    /\ xres > 0

\* What SpecFingers notes of an InjectInputEvent call
SampleNotes == {"sample_of_ignored_finger", "ignored_finger_lifted", "sample"}

\* C16 (SpecFingers), as stated.  A FINGERUP sample of id leaves id in neither the
\* finger registry nor the ignore set, whatever the state; and a move/down sample
\* of a finger that is not ignored, in a mode that is not gesture-only and with the
\* device resolution known or obtained, leaves the finger in the registry.
C16_LiftAlwaysForgets ==
    [][\A evt \in FingerEvents, touch \in {NoTouch, TouchDevice} :
          (lastCall' \in SampleNotes /\ InjectInputEvent(evt, touch))
          => IF evt.type = SDL_FINGERUP
             THEN /\ evt.fingerId \notin DOMAIN lastFingerPos'
                  /\ evt.fingerId \notin ignoredFingers'
             ELSE (/\ vjoy_mode # EGESTURE
                   /\ evt.fingerId \notin ignoredFingers
                   /\ xres > 0 \/ touch.known)
                     => evt.fingerId \in DOMAIN lastFingerPos'
      ]_vars

\* C16 (SpecFingers), amended.  While the system is enabled, a FINGERUP sample of id
\* leaves id in neither the finger registry nor the ignore set, in every touch mode
\* and whether or not the device resolution is known; and a move/down sample of a
\* finger that is not ignored, in a mode that is not gesture-only and with the
\* device resolution known or obtained, leaves the finger in the registry.
C16_LiftForgetsWhileEnabled ==
    [][\A evt \in FingerEvents, touch \in {NoTouch, TouchDevice} :
          (vjoy_enabled /\ lastCall' \in SampleNotes /\ InjectInputEvent(evt, touch))
          => IF evt.type = SDL_FINGERUP
             THEN /\ evt.fingerId \notin DOMAIN lastFingerPos'
                  /\ evt.fingerId \notin ignoredFingers'
             ELSE (/\ vjoy_mode # EGESTURE
                   /\ evt.fingerId \notin ignoredFingers
                   /\ xres > 0 \/ touch.known)
                     => evt.fingerId \in DOMAIN lastFingerPos'
      ]_vars

\* An ignored finger has just lifted in gesture-only mode and is ignored no more
C16_Witness ==
    /\ lastCall = "ignored_finger_lifted"
    /\ vjoy_enabled
    /\ vjoy_mode = EGESTURE
    /\ ignoredFingers = {}
    /\ lastFingerPos = EmptyMap

\* A step of one of the calls that run ignoreAllCurrentFingers()
IgnoreAllRuns ==
    \/ VJoy_ignoreAllCurrentFingers
    \/ \E newMode \in FingerGameModes : gameModeChanged(newMode)
    \/ \E newScreen \in FingerScreens, enter \in BOOLEAN : specScreenChanged(newScreen, enter)

\* C17 (SpecFingers).  The finger registry and the ignore set are disjoint in every
\* reachable state; a finger leaves the ignore set only in a step that processes
\* its FINGERUP, and enters it only in a step that runs ignoreAllCurrentFingers(),
\* which found it in the registry.
C17_RegistryAndIgnoredDisjoint ==
    /\ [](Tracked \cap ignoredFingers = {})
    /\ [][\A id \in FingerIds :
             /\ (id \in ignoredFingers /\ id \notin ignoredFingers')
                   => /\ vjoy_enabled
                      /\ lastCall' \in SampleNotes
                      /\ \E evt \in FingerEvents :
                            /\ evt.type = SDL_FINGERUP
                            /\ evt.fingerId = id
                            /\ InjectInputEvent(evt, NoTouch)
             /\ (id \notin ignoredFingers /\ id \in ignoredFingers')
                   => IgnoreAllRuns /\ id \in Tracked
         ]_vars

\* A sample of an ignored finger has been processed with another finger tracked
C17_Witness ==
    /\ lastCall = "sample_of_ignored_finger"
    /\ ignoredFingers # {}
    /\ Tracked # {}

\* C18 (SpecFingers).  After every gameModeChanged and every specScreenChanged call
\* the finger registry is empty and every finger tracked just before the call is in
\* the ignore set.
C18_TransitionsIgnoreTracked ==
    [][((\E newMode \in FingerGameModes : gameModeChanged(newMode))
          \/ (\E newScreen \in FingerScreens, enter \in BOOLEAN :
                 specScreenChanged(newScreen, enter)))
       => (lastFingerPos' = EmptyMap /\ Tracked \subseteq ignoredFingers')
      ]_vars

\* C19 (SpecCtx).  specScreenChanged(screen, enter = true) pushes the frame of the
\* state it finds, sets the touch mode to the lookup of the save/load key for the
\* save/load screen and of the in-game-dialog key for the other four, and sets the
\* text-box flag to (new touch mode is not touch-only) for the text box and the
\* second stage-select screen and to false for the other three.
C19_EnterAppliesScreenConfig ==
    [][\A newScreen \in SpecScreens :
          specScreenChanged(newScreen, TRUE)
          => /\ states' = Append(states, [mode |-> vjoy_mode, gm |-> gamemode,
                                          gm_draw |-> disable_draw[gamemode],
                                          normal_textbox_mode |-> textbox_mode])
             /\ vjoy_mode' = getModeFromSettings(settings,
                                 IF newScreen = "ESaveLoad" THEN "ESaveLoad"
                                 ELSE "EIngameDialog")
             /\ textbox_mode' = IF newScreen \in {"ETextBox", "EStageSelect2"}
                                THEN vjoy_mode' # ETOUCH
                                ELSE FALSE
      ]_vars

\* An enter has changed the touch mode to both and set the text-box flag
C19_Witness ==
    /\ lastCall = "enter_changing"
    /\ Len(states) = 1
    /\ Top(states).mode = ETOUCH
    /\ vjoy_mode = EBOTH
    /\ textbox_mode

\* C20 (SpecStack).  The context stack is as deep as the number of enters not yet
\* left; each leave that finds a frame pops one frame and brings the touch mode,
\* every game mode's draw-suppressed flag and the text-box flag back to what the
\* most recent enter not yet left found, so n enters followed by n leaves, with
\* game-mode changes between them, end in the values found by the first enter.
C20_LeavesMirrorEnters ==
    /\ [](Len(states) = Len(snap))
    /\ [][Len(snap') < Len(snap)
             => /\ states' = SubSeq(states, 1, Len(states) - 1)
                /\ vjoy_mode' = snap[Len(snap)].mode
                /\ disable_draw' = snap[Len(snap)].disable_draw
                /\ textbox_mode' = snap[Len(snap)].textbox_mode
         ]_vars

\* The inner of two nested screens has been left after a game-mode change between
\* the two enters: the touch mode is the one the inner enter found, not the one
\* the outer enter found
C20_Witness ==
    /\ lastCall = "leave"
    /\ Len(states) = 1
    /\ gamemode # states[1].gm
    /\ vjoy_mode # states[1].mode
    /\ textbox_mode # states[1].normal_textbox_mode

\* C21 (SpecGesture).  Whenever the touch mode is gesture-only the finger registry
\* is empty: a move or down sample injected in gesture-only mode leaves the registry
\* as it is, and ProcessInput in gesture-only mode raises no flag.
C21_GestureTracksNothing ==
    /\ [](vjoy_mode = EGESTURE => lastFingerPos = EmptyMap)
    /\ [][/\ lastCall' = "sample_in_gesture" => UNCHANGED lastFingerPos
          /\ lastCall' \in {"ProcessInput_in_gesture", "ProcessInput_after_gesture_sample"}
                => /\ \A i \in InputIds : inputs'[i] => inputs[i]
                   /\ \A i \in SegIds : pressed'[i] => pressed[i]
                   /\ vjoy_enabled => AllFlagsFalse'
         ]_vars

\* Inside a modal screen that is gesture-only, with a finger ignored because it was
\* tracked at a change, a sample has been dropped and ProcessInput has run
C21_Witness ==
    /\ lastCall = "ProcessInput_after_gesture_sample"
    /\ vjoy_enabled
    /\ vjoy_mode = EGESTURE
    /\ states # <<>>
    /\ ignoredFingers # {}
    /\ lastFingerPos = EmptyMap
    /\ AllFlagsFalse

\* C22 (SpecCtx).  Whenever the context stack is empty the normal pad's text-box
\* flag is false, so a touch dispatched by the normal pad is hit-tested against the
\* keys and not turned into the fire flag.
C22_NoTextboxOutsideScreens ==
    states = <<>>
        => /\ ~textbox_mode
           /\ \A p \in ProbePoints :
                 NormalModePad_update_buttons(ZeroIO, p, textbox_mode)
                     = DefaultControl_update_buttons(ZeroIO, p)

\* Normal gameplay after a modal screen that had set the text-box flag was left
C22_Witness ==
    /\ lastCall = "leave_after_enter_changing"
    /\ gamemode = GM_NORMAL
    /\ states = <<>>
    /\ ~textbox_mode
    /\ NormalModePad_update_buttons(ZeroIO, <<500, 8500>>, textbox_mode).inputs[JUMPKEY]

=============================================================================
